---- MODULE Spec2Model ----
(***************************************************************************)
(* Model of sockeye/encoder.py: the factor Embedding and the               *)
(* TransformerEncoder.                                                     *)
(*                                                                         *)
(* Tensors.  The encoder's data tensor is followed by its shape and the    *)
(* meaning of its axes; the attention masks are modelled entry by entry.   *)
(* All operations of Embedding.forward act alike on every (batch, time)    *)
(* position, so an embedded tensor is modelled by its feature vector at    *)
(* one position: a sequence of numbers whose length is the feature width.  *)
(* Numbers are exact rationals <<numerator, denominator>>: the rounding of *)
(* floating-point addition is not modelled.                                *)
(***************************************************************************)
EXTENDS Integers, Sequences, FiniteSets, TLC

(* ------------------------------ bounds --------------------------------- *)
MaxFactors == 2
MaxWidth == 2
MaxVal == 1
MaxDropped == 1
MaxBatch == 2
MaxLen == 2
MaxHeads == 2
MaxLayers == 2
MaxModelSize == 1
MaxConstructions == 2

VARIABLES
    emb,            \* the Embedding object, once constructed
    emb_call,       \* the inputs of its last forward call
    emb_out,        \* what that call returned or raised
    has_native,     \* hasattr(pt, '_native_multi_head_attention')
    log,            \* number of warnings the module's logger has emitted
    constructions,  \* number of TransformerEncoder objects constructed
    inference_constructions,  \* ... of them with inference_only
    enc,            \* the TransformerEncoder constructed last
    enc_call        \* its last forward call: inputs, calls made, result

embVars == <<emb, emb_call, emb_out>>

encVars == <<has_native, log, constructions, inference_constructions, enc, enc_call>>

vars == <<emb, emb_call, emb_out, has_native, log, constructions, inference_constructions,
          enc, enc_call>>

(* Optional values: None is the empty sequence, a present value x is <<x>>. *)
None == <<>>

Some(x) == <<x>>

(* ------------------------- exact arithmetic ---------------------------- *)
RECURSIVE GCD(_, _)
GCD(a, b) == IF b = 0 THEN a ELSE GCD(b, a % b)

Rat(n, d) == IF n = 0 THEN <<0, 1>> ELSE <<n \div GCD(n, d), d \div GCD(n, d)>>

RAdd(x, y) == Rat(x[1] * y[2] + y[1] * x[2], x[2] * y[2])

RScale(x, n, d) == Rat(x[1] * n, x[2] * d)

(* --------------------------- sockeye.constants ------------------------- *)
FACTORS_COMBINE_CONCAT == "concat"

FACTORS_COMBINE_SUM == "sum"

FACTORS_COMBINE_AVERAGE == "average"

FACTORS_COMBINE_CHOICES == {FACTORS_COMBINE_CONCAT, FACTORS_COMBINE_SUM, FACTORS_COMBINE_AVERAGE}

(* ------------------------------ configs -------------------------------- *)
(* FactorConfig: vocab_size only bounds the ids that may be looked up and  *)
(* is left out; lookups are taken to be in range.                          *)
FactorConfig(num_embed, combine, share_embedding) ==
    [num_embed |-> num_embed, combine |-> combine, share_embedding |-> share_embedding]

(* EmbeddingConfig with __post_init__.  dropout is in percent.  A          *)
(* factor_configs of None is the empty list: both leave num_factors = 1.   *)
EmbeddingConfig(num_embed, dropout, factor_configs) ==
    [num_embed |-> num_embed, dropout |-> dropout, factor_configs |-> factor_configs,
     num_factors |-> 1 + Len(factor_configs)]

(* ------------------------- Embedding.__init__ -------------------------- *)
(* An embedding table is modelled by its width.  embedding is None or the  *)
(* pre-existing table handed to the constructor.                           *)
EmbeddingTable(config, embedding) ==
    IF embedding # None THEN embedding[1] ELSE config.num_embed

FactorEmbed(config, embedding, fc) ==
    IF fc.share_embedding THEN EmbeddingTable(config, embedding) ELSE fc.num_embed

EmbeddingNew(config, embedding) ==
    [config |-> config,
     embedding |-> EmbeddingTable(config, embedding),
     num_factors |-> config.num_factors,
     factor_embeds |-> [i \in 1..Len(config.factor_configs) |->
                            FactorEmbed(config, embedding, config.factor_configs[i])],
     factor_combinations |-> [i \in 1..Len(config.factor_configs) |->
                                  config.factor_configs[i].combine],
     dropout |-> IF config.dropout > 0 THEN Some(config.dropout) ELSE None]

(* -------------------------- tensor operations -------------------------- *)
Tensor(v) == [kind |-> "tensor", val |-> v]

Raise(e) == [kind |-> e, val |-> <<>>]

(* pt.stack: every tensor must have the same shape. *)
StackOK(ts) == \A k \in 1..Len(ts) : Len(ts[k]) = Len(ts[1])

RECURSIVE SumAt(_, _, _)
SumAt(ts, d, k) == IF k = 0 THEN <<0, 1>> ELSE RAdd(SumAt(ts, d, k - 1), ts[k][d])

(* A running average, taken pairwise: it depends on the order of ts. *)
RECURSIVE MeanPairwiseUpTo(_, _)
MeanPairwiseUpTo(ts, k) ==
    IF k = 1 THEN ts[1]
    ELSE [d \in 1..Len(ts[1]) |->
             RScale(RAdd(MeanPairwiseUpTo(ts, k - 1)[d], ts[k][d]), 1, 2)]

MeanPairwise(ts) == MeanPairwiseUpTo(ts, Len(ts))

(* pt.mean(pt.stack(ts, dim=0), dim=0) *)
Mean(ts) == [d \in 1..Len(ts[1]) |-> RScale(SumAt(ts, d, Len(ts)), 1, Len(ts))]

(* a + b with broadcasting over the feature axis *)
Broadcastable(a, b) == Len(a) = Len(b) \/ Len(a) = 1 \/ Len(b) = 1

Add(a, b) ==
    [d \in 1..(IF Len(a) >= Len(b) THEN Len(a) ELSE Len(b)) |->
        RAdd(a[IF Len(a) = 1 THEN 1 ELSE d], b[IF Len(b) = 1 THEN 1 ELSE d])]

(* for sum_factor_embed in sum_factors_embeds: embedded = embedded + sum_factor_embed *)
RECURSIVE AddAll(_, _, _)
AddAll(embedded, sums, k) ==
    IF k = 0 THEN Tensor(embedded)
    ELSE LET prev == AddAll(embedded, sums, k - 1)
         IN IF prev.kind # "tensor" THEN prev
            ELSE IF ~Broadcastable(prev.val, sums[k]) THEN Raise("RuntimeError")
            ELSE Tensor(Add(prev.val, sums[k]))

(* pt.cat([embedded] + concat_factors_embeds, dim=2) *)
RECURSIVE Cat(_, _, _)
Cat(embedded, concats, k) ==
    IF k = 0 THEN embedded ELSE Cat(embedded, concats, k - 1) \o concats[k]

(* pt.nn.Dropout(p): the identity in evaluation mode; in training mode the *)
(* dropped elements become 0 and the others are scaled by 1 / (1 - p).     *)
Dropout(p, x, noise) ==
    IF ~noise.training THEN x
    ELSE [d \in 1..Len(x) |-> IF d \in noise.drop THEN <<0, 1>> ELSE RScale(x[d], 100, 100 - p)]

(* -------------------------- Embedding.forward -------------------------- *)
(* looked[1] is the primary lookup self.embedding(data[:, :, 0]) and       *)
(* looked[i + 1] the lookup factor_embedding(data[:, :, i]) of factor i.   *)
Bucket(self, looked, mode) ==
    LET idx == SelectSeq([i \in 1..Len(self.factor_combinations) |-> i],
                         LAMBDA i : self.factor_combinations[i] = mode)
    IN [k \in 1..Len(idx) |-> looked[idx[k] + 1]]

(* The steps of Combine with the sum factors added before the averaging. *)
CombineSumFirst(embedded, average_factors_embeds, sum_factors_embeds, concat_factors_embeds) ==
    LET summed == AddAll(embedded, sum_factors_embeds, Len(sum_factors_embeds))
        averaged == IF summed.kind # "tensor" THEN summed
                    ELSE IF average_factors_embeds # <<>>
                    THEN IF StackOK(<<summed.val>> \o average_factors_embeds)
                         THEN Tensor(Mean(<<summed.val>> \o average_factors_embeds))
                         ELSE Raise("RuntimeError")
                    ELSE summed
    IN IF averaged.kind # "tensor" THEN averaged
       ELSE Tensor(Cat(averaged.val, concat_factors_embeds, Len(concat_factors_embeds)))

Combine(embedded, average_factors_embeds, sum_factors_embeds, concat_factors_embeds) ==
    LET averaged == IF average_factors_embeds # <<>>
                    THEN IF StackOK(<<embedded>> \o average_factors_embeds)
                         THEN Tensor(Mean(<<embedded>> \o average_factors_embeds))
                         ELSE Raise("RuntimeError")
                    ELSE Tensor(embedded)
        summed == IF averaged.kind # "tensor" THEN averaged
                  ELSE AddAll(averaged.val, sum_factors_embeds, Len(sum_factors_embeds))
    IN IF summed.kind # "tensor" THEN summed
       ELSE Tensor(Cat(summed.val, concat_factors_embeds, Len(concat_factors_embeds)))

(* No branch of the if / elif chain takes the combination. *)
UnknownNever(factor_combination) == FALSE

Unknown(factor_combination) == factor_combination \notin FACTORS_COMBINE_CHOICES

Embedded(self, looked) ==
    IF self.num_factors > 1
    THEN IF \E i \in 1..Len(self.factor_combinations) : Unknown(self.factor_combinations[i])
         THEN Raise("ValueError")
         ELSE Combine(looked[1],
                      Bucket(self, looked, FACTORS_COMBINE_AVERAGE),
                      Bucket(self, looked, FACTORS_COMBINE_SUM),
                      Bucket(self, looked, FACTORS_COMBINE_CONCAT))
    ELSE Tensor(looked[1])

(* if self.dropout is not None: embedded = self.dropout(embedded) *)
ApplyDropout(self, embedded, noise) ==
    IF embedded.kind = "tensor" /\ self.dropout # None
    THEN Tensor(Dropout(self.dropout[1], embedded.val, noise))
    ELSE embedded

forward(self, looked, noise) == ApplyDropout(self, Embedded(self, looked), noise)

(* ------------------------------ inputs --------------------------------- *)
(* The rows of a table are learned parameters: a lookup may give any       *)
(* vector of the table's width.                                            *)
Vectors(w, vals) == [1..w -> {<<v, 1>> : v \in vals}]

RECURSIVE Lookups(_, _, _)
Lookups(self, vals, k) ==
    IF k = 0 THEN {<<v>> : v \in Vectors(self.embedding, vals)}
    ELSE {l \o <<v>> : l \in Lookups(self, vals, k - 1), v \in Vectors(self.factor_embeds[k], vals)}

(* The random draw of a dropout layer, when there is one. *)
Noises(self, looked) ==
    LET e == Embedded(self, looked)
    IN IF e.kind = "tensor" /\ self.dropout # None
       THEN {[training |-> FALSE, drop |-> {}]} \cup
            {[training |-> TRUE, drop |-> s] :
                s \in {t \in SUBSET (1..Len(e.val)) : Cardinality(t) <= MaxDropped}}
       ELSE {[training |-> TRUE, drop |-> {}]}

Dropouts == {0, 50}

CombineChoices == FACTORS_COMBINE_CHOICES \cup {"other"}

FactorConfigs(widths, shares) ==
    {FactorConfig(w, c, s) : w \in widths, c \in CombineChoices, s \in shares}

Lists(S, n) == UNION {[1..k -> S] : k \in 0..n}

(* Configurations whose tables differ in width: the shapes of the result. *)
ShapeConfigs ==
    {EmbeddingConfig(w, p, fcs) :
        w \in 1..MaxWidth, p \in Dropouts,
        fcs \in Lists(FactorConfigs(1..MaxWidth, BOOLEAN), MaxFactors)}

ShapeEmbeddings == {None} \cup {Some(w) : w \in 1..MaxWidth}

(* Configurations of one feature width: the values of the result. *)
CombineConfigs ==
    {EmbeddingConfig(1, p, fcs) :
        p \in Dropouts, fcs \in Lists(FactorConfigs({1}, {FALSE}), MaxFactors)}

(* ========================= TransformerEncoder ========================== *)
TransformerConfig(model_size, attention_heads, num_layers, dropout_prepost, max_seq_len_source) ==
    [model_size |-> model_size, attention_heads |-> attention_heads, num_layers |-> num_layers,
     dropout_prepost |-> dropout_prepost, max_seq_len_source |-> max_seq_len_source]

zeros(n) == [i \in 1..n |-> 0]

(* --------------------- TransformerEncoder.__init__ --------------------- *)
UsingNativeMha(inference_only, native) == inference_only /\ native

(* The warning logged whenever the kernel is missing, inference or not. *)
WarnsWithoutNative(inference_only, native) == ~native

Warns(inference_only, native) == inference_only /\ ~native

TransformerEncoderNew(config, inference_only, native) ==
    [config |-> config,
     inference_only |-> inference_only,
     using_native_mha |-> UsingNativeMha(inference_only, native),
     mha_qkv_bias |-> IF UsingNativeMha(inference_only, native)
                      THEN Some(zeros(config.model_size * 3)) ELSE None,
     mha_proj_bias |-> IF UsingNativeMha(inference_only, native)
                       THEN Some(zeros(config.model_size)) ELSE None,
     dropout |-> IF config.dropout_prepost > 0 THEN Some(config.dropout_prepost) ELSE None,
     pos_embedding |-> [num_embed |-> config.model_size, max_seq_len |-> config.max_seq_len_source],
     layers |-> config.num_layers]

(* Encoder.get_max_seq_len, which TransformerEncoder inherits. *)
get_max_seq_len(self) == None

(* ------------------------------ tensors -------------------------------- *)
(* The data tensor: its shape and what each axis runs over. *)
Data(batch, max_len, model_size) ==
    [dims |-> <<batch, max_len, model_size>>, axes |-> <<"batch", "time", "feature">>]

(* data.transpose(1, 0) *)
Transpose(data) ==
    [dims |-> <<data.dims[2], data.dims[1], data.dims[3]>>,
     axes |-> <<data.axes[2], data.axes[1], data.axes[3]>>]

(* The batch size taken for the length: max_len, _, __ = data.size(). *)
MaxLenOfBatch(data) == data.dims[1]

(* _, max_len, __ = data.size() *)
MaxLenOf(data) == data.dims[2]

(* A mask or length tensor: its shape and its entry at every index, the    *)
(* indices counted from 0 as in the program.                               *)
RECURSIVE Indices(_)
Indices(dims) ==
    IF dims = <<>> THEN {<<>>}
    ELSE {<<i>> \o rest : i \in 0..(Head(dims) - 1), rest \in Indices(Tail(dims))}

RECURSIVE Size(_)
Size(dims) == IF dims = <<>> THEN 1 ELSE Head(dims) * Size(Tail(dims))

(* The index of the element at the given offset in row-major order. *)
RECURSIVE Unravel(_, _)
Unravel(dims, offset) ==
    IF dims = <<>> THEN <<>>
    ELSE <<offset \div Size(Tail(dims))>> \o Unravel(Tail(dims), offset % Size(Tail(dims)))

(* t.unsqueeze(1) *)
Unsqueeze(t) ==
    [dims |-> <<t.dims[1], 1>> \o Tail(t.dims),
     at |-> [idx \in Indices(<<t.dims[1], 1>> \o Tail(t.dims)) |->
                t.at[<<idx[1]>> \o SubSeq(idx, 3, Len(idx))]]]

(* t.expand(-1, n, -1) of a 3-d tensor whose axis 1 has size 1 *)
Expand(t, n) ==
    [dims |-> <<t.dims[1], n, t.dims[3]>>,
     at |-> [idx \in Indices(<<t.dims[1], n, t.dims[3]>>) |-> t.at[<<idx[1], 0, idx[3]>>]]]

(* t.reshape((-1, width)): the elements in row-major order, in rows of width *)
Reshape(t, width) ==
    [dims |-> <<Size(t.dims) \div width, width>>,
     at |-> [idx \in Indices(<<Size(t.dims) \div width, width>>) |->
                t.at[Unravel(t.dims, idx[1] * width + idx[2])]]]

(* layers.prepare_source_length_mask(valid_length, heads, max_length, expand=False) *)
prepare_source_length_mask(valid_length, heads, max_length) ==
    [dims |-> <<valid_length.dims[1], max_length>>,
     at |-> [idx \in Indices(<<valid_length.dims[1], max_length>>) |->
                idx[2] < valid_length.at[<<idx[1]>>]]]

(* layers.PositionalEmbeddings, pt.nn.Dropout, transformer.TransformerEncoderBlock *)
(* and transformer.TransformerProcessBlock keep the shape of their input.          *)
pos_embedding(data) == data

dropout_prepost(data) == data

layer(data, att_mask, mha_qkv_bias, mha_proj_bias) == data

final_process(data) == data

(* --------------------- TransformerEncoder.forward ---------------------- *)
(* The batch of masks repeated once per head, as unsqueeze(0).expand(heads, -1, -1) *)
(* would lay it out: row r holds the mask of example r mod batch_size.             *)
PerHeadTiled(single_head_att_mask, attention_heads, max_len) ==
    [dims |-> <<single_head_att_mask.dims[1] * attention_heads, max_len, max_len>>,
     at |-> [idx \in Indices(<<single_head_att_mask.dims[1] * attention_heads, max_len, max_len>>)
                |-> single_head_att_mask.at[<<idx[1] % single_head_att_mask.dims[1], idx[3]>>]]]

(* single_head_att_mask.unsqueeze(1).expand(-1, heads, -1).reshape((-1, max_len)) *)
(*     .unsqueeze(1).expand(-1, max_len, -1)                                      *)
PerHead(single_head_att_mask, attention_heads, max_len) ==
    Expand(Unsqueeze(Reshape(Expand(Unsqueeze(single_head_att_mask), attention_heads),
                             max_len)),
           max_len)

AttMask(self, single_head_att_mask, max_len) ==
    IF ~self.using_native_mha
    THEN PerHead(single_head_att_mask, self.config.attention_heads, max_len)
    ELSE single_head_att_mask

BatchToTimeMajor(self, data) == IF ~self.using_native_mha THEN Transpose(data) ELSE data

(* The transposition back left out. *)
StayTimeMajor(self, data) == data

TimeToBatchMajor(self, data) == IF ~self.using_native_mha THEN Transpose(data) ELSE data

LayerBias(self, bias) == IF self.using_native_mha THEN bias ELSE None

(* The mask handed to the layers returned instead. *)
ReturnedAttMask(single_head_att_mask, att_mask) == att_mask

ReturnedMask(single_head_att_mask, att_mask) == single_head_att_mask

ReturnedLength(valid_length) == valid_length

(* for layer in self.layers: data = layer(data, att_mask=..., mha_qkv_bias=..., mha_proj_bias=...) *)
RECURSIVE RunLayers(_, _, _, _)
RunLayers(self, data, att_mask, n) ==
    IF n = 0 THEN data
    ELSE layer(RunLayers(self, data, att_mask, n - 1), att_mask,
               LayerBias(self, self.mha_qkv_bias), LayerBias(self, self.mha_proj_bias))

Call(op, data, att_mask, mha_qkv_bias, mha_proj_bias) ==
    [op |-> op, data |-> data, att_mask |-> att_mask,
     mha_qkv_bias |-> mha_qkv_bias, mha_proj_bias |-> mha_proj_bias]

(* The result of forward, with the calls it makes on the data after the    *)
(* masks are built, each with the arguments it is given.                   *)
encoder_forward(self, data0, valid_length) ==
    LET embedded == pos_embedding(data0)
        dropped == IF self.dropout # None THEN dropout_prepost(embedded) ELSE embedded
        max_len == MaxLenOf(dropped)
        single_head_att_mask ==
            prepare_source_length_mask(valid_length, self.config.attention_heads, max_len)
        att_mask == AttMask(self, single_head_att_mask, max_len)
        major == BatchToTimeMajor(self, dropped)
        layered == RunLayers(self, major, att_mask, self.layers)
        processed == final_process(layered)
        back == TimeToBatchMajor(self, processed)
    IN [ret |-> <<back, ReturnedLength(valid_length),
                  ReturnedMask(single_head_att_mask, att_mask)>>,
        att_mask |-> att_mask,
        calls |-> (IF ~self.using_native_mha
                   THEN <<Call("transpose", dropped, None, None, None)>> ELSE <<>>)
                  \o [l \in 1..self.layers |->
                         Call("layer", RunLayers(self, major, att_mask, l - 1), att_mask,
                              LayerBias(self, self.mha_qkv_bias),
                              LayerBias(self, self.mha_proj_bias))]
                  \o <<Call("final_process", layered, None, None, None)>>
                  \o (IF ~self.using_native_mha
                      THEN <<Call("transpose", processed, None, None, None)>> ELSE <<>>)]

TransformerConfigs ==
    {TransformerConfig(m, h, n, p, s) :
        m \in 1..MaxModelSize, h \in 1..MaxHeads, n \in 0..MaxLayers, p \in Dropouts,
        s \in 1..MaxLen}

(* ------------------------------ actions -------------------------------- *)
(* Embedding(config, embedding) *)
EmbeddingInit(configs, embeddings) ==
    /\ emb = None
    /\ \E config \in configs, embedding \in embeddings :
          emb' = Some(EmbeddingNew(config, embedding))
    /\ UNCHANGED <<emb_call, emb_out>>
    /\ UNCHANGED encVars

(* embedding.forward(data), the rows looked up having values in vals *)
EmbeddingForward(vals) ==
    /\ emb # None
    /\ emb_call = None
    /\ \E looked \in Lookups(emb[1], vals, Len(emb[1].factor_embeds)) :
          \E noise \in Noises(emb[1], looked) :
             /\ emb_call' = Some([looked |-> looked, noise |-> noise])
             /\ emb_out' = Some(forward(emb[1], looked, noise))
    /\ UNCHANGED emb
    /\ UNCHANGED encVars

(* TransformerEncoder(config, inference_only): the object, and the warning *)
(* it logs when the native kernel is missing.                              *)
TransformerEncoderInit(limit) ==
    /\ constructions < limit
    /\ \E config \in TransformerConfigs, inference_only \in BOOLEAN :
          /\ enc' = Some(TransformerEncoderNew(config, inference_only, has_native))
          /\ log' = IF Warns(inference_only, has_native) THEN log + 1 ELSE log
          /\ inference_constructions' =
                IF inference_only THEN inference_constructions + 1 ELSE inference_constructions
    /\ constructions' = constructions + 1
    /\ enc_call' = None
    /\ UNCHANGED has_native
    /\ UNCHANGED embVars

(* encoder.forward(data, valid_length) on a batch-major input no longer    *)
(* than the positional embeddings, the valid lengths within its length.    *)
TransformerEncoderForward(batches, lens) ==
    /\ enc # None
    /\ enc_call = None
    /\ \E batch \in batches, max_len \in lens :
          /\ max_len <= enc[1].pos_embedding.max_seq_len
          /\ \E lengths \in [Indices(<<batch>>) -> 0..max_len] :
                enc_call' = Some([data |-> Data(batch, max_len, enc[1].config.model_size),
                                  valid_length |-> [dims |-> <<batch>>, at |-> lengths],
                                  out |-> encoder_forward(
                                             enc[1],
                                             Data(batch, max_len, enc[1].config.model_size),
                                             [dims |-> <<batch>>, at |-> lengths])])
    /\ UNCHANGED <<has_native, log, constructions, inference_constructions, enc>>
    /\ UNCHANGED embVars

(* The caller is done with the result of the last call. *)
EmbeddingReturn ==
    /\ emb_call # None
    /\ emb_call' = None
    /\ emb_out' = None
    /\ UNCHANGED emb
    /\ UNCHANGED encVars

TransformerEncoderReturn ==
    /\ enc_call # None
    /\ enc_call' = None
    /\ UNCHANGED <<has_native, log, constructions, inference_constructions, enc>>
    /\ UNCHANGED embVars

Init ==
    /\ emb = None
    /\ emb_call = None
    /\ emb_out = None
    /\ has_native \in BOOLEAN
    /\ log = 0
    /\ constructions = 0
    /\ inference_constructions = 0
    /\ enc = None
    /\ enc_call = None

(* One encoder and its forward calls. *)
Next ==
    \/ TransformerEncoderInit(1)
    \/ TransformerEncoderForward(1..MaxBatch, 1..MaxLen)
    \/ TransformerEncoderReturn

Spec == Init /\ [][Next]_vars

(* The encoders constructed in one process. *)
NextConstruct ==
    \/ TransformerEncoderInit(MaxConstructions)
    \/ TransformerEncoderForward({1}, {1})
    \/ TransformerEncoderReturn

SpecConstruct == Init /\ [][NextConstruct]_vars

(* One Embedding and its forward call: the shapes. *)
NextEmbedding ==
    \/ EmbeddingInit(ShapeConfigs, ShapeEmbeddings)
    \/ EmbeddingForward({0})
    \/ EmbeddingReturn

SpecEmbedding == Init /\ [][NextEmbedding]_vars

(* One Embedding and its forward call: the values. *)
NextCombine ==
    \/ EmbeddingInit(CombineConfigs, {None})
    \/ EmbeddingForward(0..MaxVal)
    \/ EmbeddingReturn

SpecCombine == Init /\ [][NextCombine]_vars

(* ====================== properties of the encoder ====================== *)
Called == enc_call # None

CallBatch == enc_call[1].data.dims[1]

CallMaxLen == enc_call[1].data.dims[2]

CallHeads == enc[1].config.attention_heads

Returned == enc_call[1].out.ret

LayerCalls == SelectSeq(enc_call[1].out.calls, LAMBDA c : c.op = "layer")

Transposes == SelectSeq(enc_call[1].out.calls, LAMBDA c : c.op = "transpose")

(* C1: in the mask forward returns, position j of row i is marked valid    *)
(* (TRUE) exactly when j < valid_length[i], for every row whose            *)
(* valid_length is at most max_len; the mask has one row per example and   *)
(* max_len positions per row.                                              *)
C1_MaskMarksValidPrefix ==
    Called =>
        /\ Returned[3].dims = <<CallBatch, CallMaxLen>>
        /\ \A i \in 0..(CallBatch - 1) :
              enc_call[1].valid_length.at[<<i>>] <= CallMaxLen =>
                 \A j \in 0..(CallMaxLen - 1) :
                    Returned[3].at[<<i, j>>] <=> (j < enc_call[1].valid_length.at[<<i>>])

(* A batch of two rows of two positions, of lengths 1 and 2. *)
C1_Witness ==
    /\ Called
    /\ enc_call[1].data.dims[1] = 2
    /\ enc_call[1].data.dims[2] = 2
    /\ enc_call[1].valid_length.at[<<0>>] = 1
    /\ enc_call[1].valid_length.at[<<1>>] = 2
    /\ Returned[3].at = (<<0, 0>> :> TRUE) @@ (<<0, 1>> :> FALSE) @@
                        (<<1, 0>> :> TRUE) @@ (<<1, 1>> :> TRUE)

(* C2: forward returns the valid_length it was given and the single-head   *)
(* mask of shape (batch, max_len); on the generic path the mask handed to  *)
(* the layers is the per-head one, and it is not the mask returned.        *)
C2_ReturnsLengthAndSingleHeadMask ==
    Called =>
        /\ Returned[2] = enc_call[1].valid_length
        /\ Returned[3].dims = <<CallBatch, CallMaxLen>>
        /\ Returned[3] = prepare_source_length_mask(enc_call[1].valid_length, CallHeads,
                                                    CallMaxLen)
        /\ ~enc[1].using_native_mha =>
              /\ enc_call[1].out.att_mask.dims = <<CallBatch * CallHeads, CallMaxLen, CallMaxLen>>
              /\ Returned[3] # enc_call[1].out.att_mask
              /\ \A l \in 1..Len(LayerCalls) : LayerCalls[l].att_mask # Returned[3]

(* A call on the generic path with two heads and a layer. *)
C2_Witness ==
    /\ Called
    /\ ~enc[1].using_native_mha
    /\ CallHeads = 2
    /\ CallBatch = 2
    /\ Len(LayerCalls) >= 1
    /\ Returned[3].dims = <<2, CallMaxLen>>
    /\ LayerCalls[1].att_mask.dims = <<4, CallMaxLen, CallMaxLen>>

(* C7: get_max_seq_len() of the encoder returns the configured             *)
(* max_seq_len_source.                                                     *)
C7_MaxSeqLenReturned ==
    enc # None => get_max_seq_len(enc[1]) = Some(enc[1].config.max_seq_len_source)

(* C8: without the native kernel, constructing encoders never fails and    *)
(* the warning is emitted at most once over all the constructions, and at  *)
(* least once if some encoder was constructed with inference_only.         *)
C8_WarningOnce ==
    /\ constructions >= 1 => enc # None
    /\ ~has_native =>
          /\ log <= 1
          /\ inference_constructions >= 1 => log >= 1

(* C8, amended: without the native kernel, constructing encoders never     *)
(* fails and every construction with inference_only emits the warning      *)
(* once: as many warnings as inference-only constructions.                 *)
C8_WarningPerConstruction ==
    /\ constructions >= 1 => enc # None
    /\ ~has_native => log = inference_constructions

(* Two inference-only encoders constructed without the native kernel. *)
C8_Witness ==
    /\ ~has_native
    /\ constructions = 2
    /\ inference_constructions = 2
    /\ log = 2

(* C9: the attention path is fixed at construction (native exactly when    *)
(* inference_only and the runtime has the kernel) and forward calls leave  *)
(* it alone.  Native: every layer gets the single-head mask and the zero   *)
(* biases, and nothing is transposed.  Generic: every layer gets the       *)
(* per-head mask and no biases, on time-major data; the data is transposed *)
(* before the first layer and again after the final process block.  On     *)
(* both paths the encoded sequence has the layout and shape of the input.  *)
C9_PathInvariant ==
    /\ enc # None => (enc[1].using_native_mha <=> (enc[1].inference_only /\ has_native))
    /\ Called =>
          /\ Len(LayerCalls) = enc[1].config.num_layers
          /\ Returned[1] = enc_call[1].data
          /\ enc[1].using_native_mha =>
                /\ Transposes = <<>>
                /\ \A l \in 1..Len(LayerCalls) :
                      /\ LayerCalls[l].att_mask = Returned[3]
                      /\ LayerCalls[l].mha_qkv_bias = Some(zeros(3 * enc[1].config.model_size))
                      /\ LayerCalls[l].mha_proj_bias = Some(zeros(enc[1].config.model_size))
                      /\ LayerCalls[l].data = enc_call[1].data
          /\ ~enc[1].using_native_mha =>
                /\ Len(Transposes) = 2
                /\ Head(enc_call[1].out.calls).op = "transpose"
                /\ Head(enc_call[1].out.calls).data = enc_call[1].data
                /\ enc_call[1].out.calls[Len(enc_call[1].out.calls) - 1].op = "final_process"
                /\ enc_call[1].out.calls[Len(enc_call[1].out.calls)].op = "transpose"
                /\ \A l \in 1..Len(LayerCalls) :
                      /\ LayerCalls[l].att_mask = enc_call[1].out.att_mask
                      /\ LayerCalls[l].att_mask.dims =
                            <<CallBatch * CallHeads, CallMaxLen, CallMaxLen>>
                      /\ LayerCalls[l].mha_qkv_bias = None
                      /\ LayerCalls[l].mha_proj_bias = None
                      /\ LayerCalls[l].data.axes = <<"time", "batch", "feature">>
                      /\ LayerCalls[l].data.dims =
                            <<CallMaxLen, CallBatch, enc[1].config.model_size>>

C9_PathKept ==
    enc # None => enc'[1].using_native_mha = enc[1].using_native_mha

(* C9: the path and what it hands to the layers are as C9_PathInvariant    *)
(* says in every state, and no step changes the path of an encoder.        *)
C9_PathFixedAtConstruction == [] C9_PathInvariant /\ [][C9_PathKept]_vars

(* A call on the generic path of an inference-only encoder of two layers,  *)
(* the batch size differing from the length.                               *)
C9_Witness ==
    /\ Called
    /\ enc[1].inference_only
    /\ ~has_native
    /\ Len(LayerCalls) = 2
    /\ CallBatch = 1
    /\ CallMaxLen = 2
    /\ LayerCalls[2].data.dims = <<2, 1, enc[1].config.model_size>>
    /\ Returned[1].dims = <<1, 2, enc[1].config.model_size>>

(* C10: on the generic path the mask handed to the layers has shape        *)
(* (batch * heads, max_len, max_len), and its entry [b * heads + h, q, k]  *)
(* is entry [b, k] of the single-head mask.                                *)
C10_PerHeadMaskReplicates ==
    (Called /\ ~enc[1].using_native_mha) =>
        /\ enc_call[1].out.att_mask.dims = <<CallBatch * CallHeads, CallMaxLen, CallMaxLen>>
        /\ \A b \in 0..(CallBatch - 1), h \in 0..(CallHeads - 1) :
              \A q \in 0..(CallMaxLen - 1), k \in 0..(CallMaxLen - 1) :
                 enc_call[1].out.att_mask.at[<<b * CallHeads + h, q, k>>]
                    = Returned[3].at[<<b, k>>]
        /\ \A l \in 1..Len(LayerCalls) : LayerCalls[l].att_mask = enc_call[1].out.att_mask

(* Two examples of different lengths and two heads: rows 0 and 1 of the    *)
(* per-head mask belong to example 0, rows 2 and 3 to example 1.           *)
C10_Witness ==
    /\ Called
    /\ ~enc[1].using_native_mha
    /\ CallBatch = 2
    /\ CallHeads = 2
    /\ CallMaxLen = 2
    /\ Len(LayerCalls) >= 1
    /\ enc_call[1].valid_length.at[<<0>>] = 1
    /\ enc_call[1].valid_length.at[<<1>>] = 2
    /\ ~LayerCalls[1].att_mask.at[<<1, 0, 1>>]
    /\ LayerCalls[1].att_mask.at[<<2, 0, 1>>]

(* ===================== properties of the Embedding ===================== *)
EmbeddingCalled == emb_out # None

FactorCount == Len(emb[1].factor_combinations)

FactorsWith(mode) ==
    SelectSeq([i \in 1..FactorCount |-> i], LAMBDA i : emb[1].factor_combinations[i] = mode)

AllCombinesKnown ==
    \A i \in 1..FactorCount :
        emb[1].config.factor_configs[i].combine \in FACTORS_COMBINE_CHOICES

RECURSIVE ConfiguredWidths(_, _)
ConfiguredWidths(idx, k) ==
    IF k = 0 THEN 0
    ELSE ConfiguredWidths(idx, k - 1) + emb[1].config.factor_configs[idx[k]].num_embed

FactorOrders(n) == {p \in [1..n -> 1..n] : \A i, j \in 1..n : p[i] = p[j] => i = j}

(* The object constructed from the factor_configs in the order p, and the  *)
(* rows looked up for them.                                                *)
PermuteFactors(self, p) ==
    [self EXCEPT !.config.factor_configs = [i \in 1..Len(p) |-> self.config.factor_configs[p[i]]],
                 !.factor_embeds = [i \in 1..Len(p) |-> self.factor_embeds[p[i]]],
                 !.factor_combinations = [i \in 1..Len(p) |-> self.factor_combinations[p[i]]]]

PermuteLooked(looked, p) == <<looked[1]>> \o [i \in 1..Len(p) |-> looked[p[i] + 1]]

(* p reorders factors of one width-preserving bucket among themselves. *)
WithinBucket(p) ==
    \A i \in 1..FactorCount :
        /\ emb[1].factor_combinations[p[i]] = emb[1].factor_combinations[i]
        /\ emb[1].factor_combinations[i] \notin {FACTORS_COMBINE_SUM, FACTORS_COMBINE_AVERAGE}
              => p[i] = i

(* p interleaves the buckets differently, each bucket keeping its order. *)
KeepsBucketOrder(p) ==
    \A i, j \in 1..FactorCount :
        (i < j /\ emb[1].factor_combinations[p[i]] = emb[1].factor_combinations[p[j]])
            => p[i] < p[j]

(* What the dropout layer, if any, makes of the element x at position pos. *)
AfterDropout(x, pos) ==
    IF emb[1].dropout = None \/ ~emb_call[1].noise.training THEN x
    ELSE IF pos \in emb_call[1].noise.drop THEN <<0, 1>>
    ELSE RScale(x, 100, 100 - emb[1].dropout[1])

RECURSIVE LookedWidths(_, _)
LookedWidths(idx, k) ==
    IF k = 0 THEN 0 ELSE LookedWidths(idx, k - 1) + Len(emb_call[1].looked[idx[k] + 1])

RECURSIVE LookedSum(_, _, _)
LookedSum(idx, d, k) ==
    IF k = 0 THEN 0 ELSE LookedSum(idx, d, k - 1) + emb_call[1].looked[idx[k] + 1][d][1]

(* C3: with valid combine modes, the width of the output is num_embed plus *)
(* the num_embed of every factor combined by concatenation (num_embed      *)
(* alone when there is none).                                              *)
C3_OutputWidth ==
    (EmbeddingCalled /\ AllCombinesKnown /\ emb_out[1].kind = "tensor") =>
        Len(emb_out[1].val) =
            emb[1].config.num_embed
                + ConfiguredWidths(FactorsWith(FACTORS_COMBINE_CONCAT),
                                   Len(FactorsWith(FACTORS_COMBINE_CONCAT)))

(* C4: reordering the sum factors among themselves, or the average factors *)
(* among themselves, leaves the output of forward as it is, and the        *)
(* concatenated factors follow the primary part of the output in the       *)
(* configured order.                                                       *)
C4_BucketOrderIrrelevant ==
    EmbeddingCalled =>
        /\ \A p \in FactorOrders(FactorCount) :
              WithinBucket(p) =>
                 forward(PermuteFactors(emb[1], p), PermuteLooked(emb_call[1].looked, p),
                         emb_call[1].noise) = emb_out[1]
        /\ emb_out[1].kind = "tensor" =>
              LET idx == FactorsWith(FACTORS_COMBINE_CONCAT)
                  first == Len(emb_out[1].val) - LookedWidths(idx, Len(idx))
              IN \A r \in 1..Len(idx) :
                    \A d \in 1..Len(emb_call[1].looked[idx[r] + 1]) :
                       emb_out[1].val[first + LookedWidths(idx, r - 1) + d] =
                          AfterDropout(emb_call[1].looked[idx[r] + 1][d],
                                       first + LookedWidths(idx, r - 1) + d)

(* Two average factors whose rows differ, averaged with the primary row. *)
C4_Witness ==
    /\ EmbeddingCalled
    /\ emb[1].factor_combinations = <<FACTORS_COMBINE_AVERAGE, FACTORS_COMBINE_AVERAGE>>
    /\ emb[1].dropout = None
    /\ emb_call[1].looked = << <<(<<0, 1>>)>>, <<(<<1, 1>>)>>, <<(<<0, 1>>)>> >>
    /\ emb_out[1] = Tensor(<< <<1, 3>> >>)

(* The steps of forward in the order the code takes them, and in the order *)
(* that adds the sum factors before averaging.                             *)
StepOrderIrrelevant ==
    (EmbeddingCalled /\ AllCombinesKnown) =>
        emb_out[1] =
            ApplyDropout(emb[1],
                         CombineSumFirst(emb_call[1].looked[1],
                                         Bucket(emb[1], emb_call[1].looked, FACTORS_COMBINE_AVERAGE),
                                         Bucket(emb[1], emb_call[1].looked, FACTORS_COMBINE_SUM),
                                         Bucket(emb[1], emb_call[1].looked, FACTORS_COMBINE_CONCAT)),
                         emb_call[1].noise)

(* The output does not depend on how the configuration interleaves the     *)
(* buckets.                                                                *)
InterleavingIrrelevant ==
    EmbeddingCalled =>
        \A p \in FactorOrders(FactorCount) :
            KeepsBucketOrder(p) =>
                forward(PermuteFactors(emb[1], p), PermuteLooked(emb_call[1].looked, p),
                        emb_call[1].noise) = emb_out[1]

(* Without dropout, element d of the primary part of the output is         *)
(* (e + a_1 + ... + a_k) / (k + 1) + s_1 + ... + s_m: the mean of the       *)
(* primary row and the average rows, and the sum rows added to that mean.  *)
AverageThenSum ==
    (EmbeddingCalled /\ emb_out[1].kind = "tensor" /\ emb[1].dropout = None) =>
        LET avg == FactorsWith(FACTORS_COMBINE_AVERAGE)
            sum == FactorsWith(FACTORS_COMBINE_SUM)
            cat == FactorsWith(FACTORS_COMBINE_CONCAT)
        IN /\ Len(emb_out[1].val) = Len(emb_call[1].looked[1]) + LookedWidths(cat, Len(cat))
           /\ \A d \in 1..Len(emb_call[1].looked[1]) :
                 emb_out[1].val[d][1] * (Len(avg) + 1) =
                    emb_out[1].val[d][2] *
                       (emb_call[1].looked[1][d][1] + LookedSum(avg, d, Len(avg))
                           + (Len(avg) + 1) * LookedSum(sum, d, Len(sum)))

(* C5: however the configuration interleaves the factors, forward averages *)
(* first, then adds the sum factors, then concatenates; and the order of   *)
(* the two width-preserving steps does not matter to the result.           *)
C5_OnlyConcatenationOrdered ==
    /\ InterleavingIrrelevant
    /\ AverageThenSum
    /\ StepOrderIrrelevant

(* C5, amended: however the configuration interleaves the factors, forward *)
(* averages first, then adds the sum factors, then concatenates, so the    *)
(* output does not depend on the interleaving; the sum factors are added   *)
(* to the mean and are not part of it.                                     *)
C5_FixedStepOrder ==
    /\ InterleavingIrrelevant
    /\ AverageThenSum

(* A sum factor configured before an average factor: the mean of 0 and 0   *)
(* is taken first and the 1 of the sum factor added to it.                 *)
C5_Witness ==
    /\ EmbeddingCalled
    /\ emb[1].factor_combinations = <<FACTORS_COMBINE_SUM, FACTORS_COMBINE_AVERAGE>>
    /\ emb[1].dropout = None
    /\ emb_call[1].looked = << <<(<<0, 1>>)>>, <<(<<1, 1>>)>>, <<(<<0, 1>>)>> >>
    /\ emb_out[1] = Tensor(<< <<1, 1>> >>)

(* C6: forward raises ValueError, and returns nothing, exactly when some   *)
(* configured factor has a combine mode other than sum, average and        *)
(* concat; the constructor accepts every configuration.                    *)
C6_UnknownCombineRaises ==
    EmbeddingCalled =>
        /\ emb_out[1].kind = "ValueError" <=> ~AllCombinesKnown
        /\ emb_out[1].kind = "ValueError" => emb_out[1].val = <<>>

(* A known factor followed by an unknown one: constructed, then raised. *)
C6_Witness ==
    /\ EmbeddingCalled
    /\ emb[1].factor_combinations = <<FACTORS_COMBINE_SUM, "other">>
    /\ emb_out[1].kind = "ValueError"

====
